---- MODULE Spec2Model ----
(***************************************************************************)
(* Model of the ColouringMap component (app/src/frontend/map/map.tsx):     *)
(* its React state (dataLayers, position, zoom), its props, the            *)
(* asynchronous click handler, and what one render produces.               *)
(*                                                                         *)
(* Optional JavaScript values are modelled as sequences of length at most  *)
(* one: <<>> is undefined, <<v>> is the value v.                           *)
(* Every React event handler is one action; the re-render and the effect   *)
(* flush that React runs at the end of a discrete event are part of it     *)
(* (Commit).                                                               *)
(***************************************************************************)
EXTENDS Integers, Sequences, FiniteSets, TLC

VARIABLES
    dataLayers,            \* useState<LayerEnablementState>, map.tsx:66
    position,              \* useState(initialMapViewport.position), map.tsx:67
    zoom,                  \* useState(initialMapViewport.zoom), map.tsx:68
    mode,                  \* prop, map.tsx:47
    selectedBuildingId,    \* prop, map.tsx:46 (optional)
    mapColourScale,        \* prop, map.tsx:50 (optional)
    darkLightTheme,        \* useDisplayPreferences(), map.tsx:65
    layerSwitchDataLayers, \* the dataLayers value the layerSwitch closure holds
    lookup,                \* per click: the state of its handleClick invocation
    nClicks,               \* number of map clicks so far
    requests,              \* per click: number of apiGet calls made for it
    settled,               \* click ids in the order their lookups settled
    calls,                 \* log of onBuildingAction invocations
    lastLocate,            \* arguments of the most recent handleLocate call
    toggles,               \* layerSwitch invocations so far: 0, then 1, 2, 1, 2, ...
    setViewCall,           \* map.setView call made by the last step, if any
    rendered               \* output of the last render

vars == <<dataLayers, position, zoom, mode, selectedBuildingId, mapColourScale,
          darkLightTheme, layerSwitchDataLayers, lookup, nClicks, requests,
          settled, calls, lastLocate, toggles, setViewCall, rendered>>

----------------------------------------------------------------------------
(* Bounds and input domains *)

MaxClicks == 2

Clicks == 1..MaxClicks

LocatePoints == {<<0, 1>>, <<1, 0>>}
Zooms == {14, 19}
ClickPoints == {<<0, 0>>, <<1, 1>>}

Undefined == <<>>
Some(v) == <<v>>

\* of 'basic' | 'view' | 'edit' | 'multi-edit' the component only tests
\* mode !== 'basic' (isEdit is computed and never read), so 'view' stands for
\* the three other modes
Modes == {"basic", "view"}
LayerEnablementState == {"enabled", "disabled"}
MapTheme == {"light", "night"}
BuildingIds == {Undefined, Some(0), Some(42)}
ColourScales == {Undefined, Some("date_year")}

\* what the point lookup can deliver: a rejection, a body without data, or a
\* sequence of buildings (identified by their id)
LookupResults == {<<>>, <<42, 7>>}
Outcomes ==
    {[ok |-> FALSE, hasData |-> FALSE, items |-> <<>>],
     [ok |-> TRUE, hasData |-> FALSE, items |-> <<>>]}
    \cup {[ok |-> TRUE, hasData |-> TRUE, items |-> s] : s \in LookupResults}

minZoom == 9
maxZoom == 18

initialMapViewport == [position |-> <<0, 0>>, zoom |-> 16]

----------------------------------------------------------------------------
(* Rendering *)

OverlayChrome == {"Legend", "ThemeSwitcher", "DataLayerSwitcher", "SearchBox"}
BoundarySwitchers ==
    {"BoroughSwitcher", "ParcelSwitcher", "FloodSwitcher",
     "ConservationAreaSwitcher", "HistoricDataSwitcher", "VistaSwitcher",
     "HousingSwitcher", "CreativeSwitcher"}

\* JavaScript truthiness of an optional number: undefined and 0 are falsy
TruthyNumber(v) == v # Undefined /\ v # Some(0)

\* JavaScript truthiness of an optional string: undefined and "" are falsy
TruthyString(v) == v # Undefined /\ v # Some("")

hasSelection(id) == id # Undefined

HighlightLayers(id, scale) ==
    IF TruthyNumber(id)
    THEN <<[selectedBuildingId |-> id, baseTileset |-> scale]>>
    ELSE <<>>

BuildingDataLayers(scale) ==
    IF TruthyString(scale) THEN <<[tileset |-> scale]>> ELSE <<>>

\* variant: the boundary switchers are not gated on the layer group
WidgetsUngated(m, layers) ==
    IF m # "basic" THEN OverlayChrome \cup BoundarySwitchers ELSE {}

Widgets(m, layers) ==
    IF m # "basic"
    THEN OverlayChrome \cup (IF layers = "enabled" THEN BoundarySwitchers ELSE {})
    ELSE {}

Render(m, layers, id, scale, theme) ==
    [widgets |-> Widgets(m, layers),
     highlight |-> HighlightLayers(id, scale),
     buildingData |-> BuildingDataLayers(scale),
     basePaneKey |-> theme]

\* variant: the effect has no dependency array and runs after every render
MapViewportEffectNoDeps(prevPosition, prevZoom, newPosition, newZoom) ==
    Some([position |-> newPosition.latlng, zoom |-> newZoom])

\* useEffect(() => map.setView(position, zoom), [position, zoom]):
\* runs when a dependency differs (Object.is) from the previous render's
MapViewportEffect(prevPosition, prevZoom, newPosition, newZoom) ==
    IF prevPosition.ref # newPosition.ref \/ prevZoom # newZoom
    THEN Some([position |-> newPosition.latlng, zoom |-> newZoom])
    ELSE Undefined

\* the re-render and effect flush at the end of an event that set state or
\* changed props
Commit ==
    /\ rendered' = Render(mode', dataLayers', selectedBuildingId',
                          mapColourScale', darkLightTheme')
    /\ layerSwitchDataLayers' = dataLayers'
    /\ setViewCall' = MapViewportEffect(position, zoom, position', zoom')

----------------------------------------------------------------------------
(* Initial state: after the first render and the mount effects *)

Idle == [status |-> "idle", outcome |-> <<>>]

Init ==
    /\ dataLayers = "disabled"
    /\ position = [ref |-> 0, latlng |-> initialMapViewport.position]
    /\ zoom = initialMapViewport.zoom
    /\ mode \in Modes
    /\ selectedBuildingId = Undefined
    /\ mapColourScale \in ColourScales
    /\ darkLightTheme = "light"
    /\ layerSwitchDataLayers = "disabled"
    /\ lookup = [c \in Clicks |-> Idle]
    /\ nClicks = 0
    /\ requests = [c \in Clicks |-> 0]
    /\ settled = <<>>
    /\ calls = <<>>
    /\ lastLocate = Undefined
    /\ toggles = 0
    /\ setViewCall = Some([position |-> initialMapViewport.position,
                           zoom |-> initialMapViewport.zoom])
    /\ rendered = Render(mode, dataLayers, selectedBuildingId, mapColourScale,
                         darkLightTheme)

----------------------------------------------------------------------------
(* Operations *)

\* a fresh array: its identity differs from every array still referenced
\* (the configuration's initial position, ref 0, and the current state)
FreshRef(cur) == CHOOSE r \in 1..2 : r # cur

\* variant: the zoom is clamped to [minZoom, maxZoom] before it is stored
handleLocateClamped(lat, lng, z) ==
    /\ position' = [ref |-> FreshRef(position.ref), latlng |-> <<lat, lng>>]
    /\ zoom' = (IF z < minZoom THEN minZoom ELSE IF z > maxZoom THEN maxZoom ELSE z)
    /\ lastLocate' = Some([lat |-> lat, lng |-> lng, zoom |-> z])
    /\ UNCHANGED <<toggles, dataLayers, mode, selectedBuildingId, mapColourScale,
                   darkLightTheme, lookup, nClicks, requests, settled, calls>>
    /\ Commit

\* variant: the arguments are mixed up, setZoom(lng)
handleLocateMixedUp(lat, lng, z) ==
    /\ position' = [ref |-> FreshRef(position.ref), latlng |-> <<lat, lng>>]
    /\ zoom' = lng
    /\ lastLocate' = Some([lat |-> lat, lng |-> lng, zoom |-> z])
    /\ UNCHANGED <<toggles, dataLayers, mode, selectedBuildingId, mapColourScale,
                   darkLightTheme, lookup, nClicks, requests, settled, calls>>
    /\ Commit

handleLocate(lat, lng, z) ==
    /\ position' = [ref |-> FreshRef(position.ref), latlng |-> <<lat, lng>>]
    /\ zoom' = z
    /\ lastLocate' = Some([lat |-> lat, lng |-> lng, zoom |-> z])
    /\ UNCHANGED <<toggles, dataLayers, mode, selectedBuildingId, mapColourScale,
                   darkLightTheme, lookup, nClicks, requests, settled, calls>>
    /\ Commit

\* handleClick up to its await: the lookup for e.latlng is issued (the point
\* only goes into the request's URL)
handleClick(c, latlng) ==
    /\ c = nClicks + 1
    /\ c <= MaxClicks
    /\ nClicks' = c
    /\ lookup' = [lookup EXCEPT ![c] = [status |-> "pending", outcome |-> <<>>]]
    /\ requests' = [requests EXCEPT ![c] = @ + 1]
    /\ setViewCall' = Undefined
    /\ UNCHANGED <<toggles, dataLayers, position, zoom, mode, selectedBuildingId,
                   mapColourScale, darkLightTheme, layerSwitchDataLayers,
                   settled, calls, lastLocate, rendered>>

\* variant: the last element is taken instead of the first
FirstLast(o) ==
    IF o.hasData /\ Len(o.items) > 0 THEN Some(o.items[Len(o.items)])
    ELSE Undefined

\* data?.[0]
First(o) ==
    IF o.hasData /\ Len(o.items) > 0 THEN Some(o.items[1]) ELSE Undefined

\* variant: the callback is guarded by `if (building)`
handleClickResumeGuarded(c, o) ==
    /\ lookup[c].status = "pending"
    /\ settled' = Append(settled, c)
    /\ lookup' = [lookup EXCEPT ![c] =
                    [status |-> IF o.ok THEN "fulfilled" ELSE "rejected",
                     outcome |-> Some(o)]]
    /\ calls' = (IF o.ok /\ First(o) # Undefined
                 THEN Append(calls, [click |-> c, building |-> First(o)])
                 ELSE calls)
    /\ setViewCall' = Undefined
    /\ UNCHANGED <<toggles, dataLayers, position, zoom, mode, selectedBuildingId,
                   mapColourScale, darkLightTheme, layerSwitchDataLayers,
                   nClicks, requests, lastLocate, rendered>>

\* variant: a failed lookup is caught and reported as "nothing found"
handleClickResumeCatch(c, o) ==
    /\ lookup[c].status = "pending"
    /\ settled' = Append(settled, c)
    /\ lookup' = [lookup EXCEPT ![c] = [status |-> "fulfilled",
                                        outcome |-> Some(o)]]
    /\ calls' = Append(calls, [click |-> c,
                               building |-> IF o.ok THEN First(o) ELSE Undefined])
    /\ setViewCall' = Undefined
    /\ UNCHANGED <<toggles, dataLayers, position, zoom, mode, selectedBuildingId,
                   mapColourScale, darkLightTheme, layerSwitchDataLayers,
                   nClicks, requests, lastLocate, rendered>>

\* variant: a response older than the latest click is discarded
handleClickResumeLatestOnly(c, o) ==
    /\ lookup[c].status = "pending"
    /\ settled' = Append(settled, c)
    /\ lookup' = [lookup EXCEPT ![c] =
                    [status |-> IF o.ok THEN "fulfilled" ELSE "rejected",
                     outcome |-> Some(o)]]
    /\ calls' = (IF o.ok /\ c = nClicks
                 THEN Append(calls, [click |-> c, building |-> First(o)])
                 ELSE calls)
    /\ setViewCall' = Undefined
    /\ UNCHANGED <<toggles, dataLayers, position, zoom, mode, selectedBuildingId,
                   mapColourScale, darkLightTheme, layerSwitchDataLayers,
                   nClicks, requests, lastLocate, rendered>>

\* handleClick after its await: the lookup of click c settles with outcome o
handleClickResume(c, o) ==
    /\ lookup[c].status = "pending"
    /\ settled' = Append(settled, c)
    /\ IF o.ok
       THEN /\ lookup' = [lookup EXCEPT ![c] = [status |-> "fulfilled",
                                               outcome |-> Some(o)]]
            /\ calls' = Append(calls, [click |-> c, building |-> First(o)])
       ELSE /\ lookup' = [lookup EXCEPT ![c] = [status |-> "rejected",
                                               outcome |-> Some(o)]]
            /\ calls' = calls
    /\ setViewCall' = Undefined
    /\ UNCHANGED <<toggles, dataLayers, position, zoom, mode, selectedBuildingId,
                   mapColourScale, darkLightTheme, layerSwitchDataLayers,
                   nClicks, requests, lastLocate, rendered>>

\* variant: the comparison never matches, so the state is always set to
\* 'enabled'
layerSwitchAlwaysEnable ==
    /\ mode # "basic"
    /\ dataLayers' = "enabled"
    /\ toggles' = (IF toggles = 1 THEN 2 ELSE 1)
    /\ UNCHANGED <<position, zoom, mode, selectedBuildingId, mapColourScale,
                   darkLightTheme, lookup, nClicks, requests, settled, calls,
                   lastLocate>>
    /\ Commit

\* DataLayerSwitcher, whose onSubmit is layerSwitch, is rendered when mode is
\* not 'basic'
layerSwitch ==
    /\ mode # "basic"
    /\ dataLayers' = (IF layerSwitchDataLayers = "enabled"
                      THEN "disabled" ELSE "enabled")
    /\ toggles' = (IF toggles = 1 THEN 2 ELSE 1)
    /\ UNCHANGED <<position, zoom, mode, selectedBuildingId, mapColourScale,
                   darkLightTheme, lookup, nClicks, requests, settled, calls,
                   lastLocate>>
    /\ Commit

darkLightThemeSwitch ==
    /\ mode # "basic"
    /\ darkLightTheme' = (IF darkLightTheme = "light" THEN "night" ELSE "light")
    /\ UNCHANGED <<toggles, dataLayers, position, zoom, mode, selectedBuildingId,
                   mapColourScale, lookup, nClicks, requests, settled, calls,
                   lastLocate>>
    /\ Commit

\* the parent re-renders the component with new props
SetMode(m) ==
    /\ m # mode
    /\ mode' = m
    /\ UNCHANGED <<toggles, dataLayers, position, zoom, selectedBuildingId,
                   mapColourScale, darkLightTheme, lookup, nClicks, requests,
                   settled, calls, lastLocate>>
    /\ Commit

SetSelectedBuildingId(id) ==
    /\ id # selectedBuildingId
    /\ selectedBuildingId' = id
    /\ UNCHANGED <<toggles, dataLayers, position, zoom, mode, mapColourScale,
                   darkLightTheme, lookup, nClicks, requests, settled, calls,
                   lastLocate>>
    /\ Commit

SetMapColourScale(s) ==
    /\ s # mapColourScale
    /\ mapColourScale' = s
    /\ UNCHANGED <<toggles, dataLayers, position, zoom, mode, selectedBuildingId,
                   darkLightTheme, lookup, nClicks, requests, settled, calls,
                   lastLocate>>
    /\ Commit

\* SearchBox, the only caller of handleLocate, is rendered when mode is not
\* 'basic'
Locate ==
    /\ mode # "basic"
    /\ \E p \in LocatePoints, z \in Zooms : handleLocate(p[1], p[2], z)
Click == \E c \in Clicks, p \in ClickPoints : handleClick(c, p)
Settle == \E c \in Clicks, o \in Outcomes : handleClickResume(c, o)
ModeChange == \E m \in Modes : SetMode(m)
SelectionChange == \E id \in BuildingIds : SetSelectedBuildingId(id)
ColourScaleChange == \E s \in ColourScales : SetMapColourScale(s)

Next ==
    \/ Locate
    \/ Click
    \/ Settle
    \/ layerSwitch
    \/ darkLightThemeSwitch
    \/ ModeChange
    \/ SelectionChange
    \/ ColourScaleChange

Spec == Init /\ [][Next]_vars

----------------------------------------------------------------------------
(* Properties *)

CallsOf(c) == {i \in 1..Len(calls) : calls[i].click = c}

Fulfilled(c) == lookup[c].status = "fulfilled"

\* the lookup of click c completed successfully with no entity: no data at
\* all, or an empty sequence
ZeroEntities(c) ==
    /\ Fulfilled(c)
    /\ \/ ~lookup[c].outcome[1].hasData
       \/ Len(lookup[c].outcome[1].items) = 0

NonEmptyResult(c) ==
    /\ Fulfilled(c)
    /\ lookup[c].outcome[1].hasData
    /\ Len(lookup[c].outcome[1].items) > 0

C2_FirstEntityForwardedOnce ==
    \A c \in Clicks :
        NonEmptyResult(c) =>
            /\ Cardinality(CallsOf(c)) = 1
            /\ \A i \in CallsOf(c) :
                   calls[i].building = Some(lookup[c].outcome[1].items[1])

C2_Witness ==
    \E c \in Clicks :
        /\ NonEmptyResult(c)
        /\ Len(lookup[c].outcome[1].items) = 2
        /\ \E i \in CallsOf(c) : calls[i].building = Some(42)

\* C3: the layer group starts 'disabled' and every layerSwitch flips it to the
\* other value: it is 'enabled' after an odd number of toggles and 'disabled'
\* after none or an even number, so two successive toggles restore it.
C3_ToggleFlips ==
    /\ dataLayers \in LayerEnablementState
    /\ dataLayers = (IF toggles = 1 THEN "enabled" ELSE "disabled")

C3_Witness == toggles = 2 /\ dataLayers = "disabled"

\* C4: after handleLocate(lat, lng, zoom) the viewport state is exactly
\* position = (lat, lng) and zoom = zoom, whatever the arguments are.
C4_LocateSetsViewport ==
    lastLocate # Undefined =>
        /\ position.latlng = <<lastLocate[1].lat, lastLocate[1].lng>>
        /\ zoom = lastLocate[1].zoom

C4_Witness ==
    /\ lastLocate # Undefined
    /\ lastLocate[1].zoom > maxZoom
    /\ zoom = lastLocate[1].zoom
    /\ position.latlng = <<1, 0>>

\* C5 as stated: in every reachable state the zoom lies within
\* [minZoom, maxZoom].
C5_ZoomWithinLimits == zoom \in minZoom..maxZoom

\* C5 amended: the zoom lies within [minZoom, maxZoom] in every reachable
\* state in which the most recent locate, if there was one, passed a zoom in
\* that range; an out-of-range zoom passed to locate is stored as it is.
C5_ZoomWithinLimitsIfCallersValid ==
    (lastLocate = Undefined \/ lastLocate[1].zoom \in minZoom..maxZoom)
        => zoom \in minZoom..maxZoom

C5_Witness ==
    /\ lastLocate # Undefined
    /\ lastLocate[1].zoom \in minZoom..maxZoom
    /\ zoom = 14
    /\ position.ref = 2

\* C6: with selectedBuildingId undefined no highlight layer is rendered; with
\* selectedBuildingId defined exactly one is, for that id and the current
\* colour scale.
C6_HighlightIffSelection ==
    rendered.highlight =
        (IF selectedBuildingId = Undefined
         THEN <<>>
         ELSE <<[selectedBuildingId |-> selectedBuildingId,
                 baseTileset |-> mapColourScale]>>)

\* C7: the overlay chrome is rendered exactly when mode is not 'basic', and
\* the boundary switchers exactly when mode is not 'basic' and the layer
\* group is 'enabled'.
C7_ChromeGating ==
    /\ rendered.widgets \cap OverlayChrome =
           (IF mode # "basic" THEN OverlayChrome ELSE {})
    /\ rendered.widgets \cap BoundarySwitchers =
           (IF mode # "basic" /\ dataLayers = "enabled"
            THEN BoundarySwitchers ELSE {})

C7_Witness ==
    /\ mode = "basic"
    /\ dataLayers = "enabled"
    /\ rendered.widgets = {}
    /\ darkLightTheme = "night"
    /\ selectedBuildingId = Some(42)

\* C8: when the lookup of a click fails, the handler ends rejected (the
\* failure is not caught), onBuildingAction is never invoked for the click,
\* no second lookup is issued for it, and the step leaves the viewport and the
\* layer-group state as they were.
C8_FailedLookupIsNoAction ==
    /\ [](\A c \in Clicks :
            (lookup[c].outcome # Undefined /\ ~lookup[c].outcome[1].ok) =>
                /\ lookup[c].status = "rejected"
                /\ CallsOf(c) = {}
                /\ requests[c] = 1)
    /\ [][\A c \in Clicks :
            (lookup[c].status = "pending" /\ lookup'[c].outcome # Undefined
               /\ ~lookup'[c].outcome[1].ok) =>
                UNCHANGED <<position, zoom, dataLayers, calls, requests>>]_vars

C8_Witness ==
    \E c, d \in Clicks :
        /\ lookup[c].status = "rejected"
        /\ c < d
        /\ CallsOf(d) # {}
        /\ dataLayers = "enabled"

\* the clicks whose lookups were fulfilled, in the order they settled
RECURSIVE FulfilledInOrder(_)
FulfilledInOrder(s) ==
    IF s = <<>> THEN <<>>
    ELSE IF Fulfilled(Head(s))
         THEN <<Head(s)>> \o FulfilledInOrder(Tail(s))
         ELSE FulfilledInOrder(Tail(s))

\* C9: every click issues its own lookup, and a lookup stays pending until it
\* settles, whatever further clicks occur; the onBuildingAction invocations
\* occur in the order the lookups complete.
C9_NoCancellationCompletionOrder ==
    /\ [](/\ \A c \in Clicks :
               IF c <= nClicks
               THEN requests[c] = 1 /\ lookup[c].status # "idle"
               ELSE requests[c] = 0 /\ lookup[c].status = "idle"
          /\ [i \in 1..Len(calls) |-> calls[i].click] = FulfilledInOrder(settled))
    /\ [][\A c \in Clicks :
            lookup[c].status = "pending" =>
                \/ lookup'[c].status = "pending"
                \/ /\ lookup'[c].status \in {"fulfilled", "rejected"}
                   /\ settled' = Append(settled, c)]_vars

\* the last callback invoked belongs to an earlier click than one whose
\* callback was already invoked
C9_Witness ==
    /\ Len(calls) >= 2
    /\ \E i \in 1..(Len(calls) - 1) : calls[i].click > calls[Len(calls)].click

\* C10: a step that changes position or zoom makes one map.setView call with
\* the new values, and a step that changes neither makes none.
C10_PushOnViewportChangeOnly ==
    [][/\ (position' # position \/ zoom' # zoom) =>
              setViewCall' = Some([position |-> position'.latlng, zoom |-> zoom'])
       /\ (position' = position /\ zoom' = zoom) => setViewCall' = Undefined]_vars

C10_Witness ==
    /\ lastLocate # Undefined
    /\ setViewCall = Some([position |-> <<0, 1>>, zoom |-> 19])
    /\ dataLayers = "enabled"

====
